---- MODULE Spec2Model ----
(***************************************************************************)
(* Model of src/main.py (YT-Music Lite): the /search handler search_tracks *)
(* and the /track/{video_id} handler track_details with its audio-URL      *)
(* TTL cache.  One action is one run of a coroutine between two awaits.    *)
(***************************************************************************)
EXTENDS Integers, Sequences, FiniteSets, TLC

\* ------------------------------------------------------------------ bounds
MaxTime == 2        \* the clock runs 0..MaxTime
MaxLen == 2         \* records in one upstream search result

\* ------------------------------------------------- constants of the program
\* One clock tick is the unit of time.  The source has ttl = 300 s,
\* timeout = 8 s and maxsize = 1000; the model keeps their roles and their
\* order (timeout < ttl) on a scale the identifiers of the model can reach.
ttl == 2
timeout == 1
maxsize == 1
thumb_maxsize == 1

None == "None"

\* None where a URL, a stored entry or a response body is expected.
NoUrl == [id |-> None, ver |-> 0]
NoStore == [url |-> NoUrl, at |-> 0]
NoBody == [title |-> None, artist |-> None, thumbnail |-> None, audioUrl |-> NoUrl]

\* Identifiers accepted by the Path regex ^[a-zA-Z0-9_-]{11}$ (stand-ins).
TrackIds == {"A", "B"}
Hashes == {1, 2}
\* Two requests may be in flight at once.
Tasks == {1, 2}
\* Stream URLs are signed per listing: one identifier resolves to different
\* URLs over time.
Versions == {1, 2}
URLs == [id : TrackIds, ver : Versions]

\* hash(video_id): str hashes are seeded per process, and there are more
\* 11-character identifiers (64^11) than hash values (2^64), so two
\* identifiers may share a key.  Fixed for "A" up to renaming.
HashChoices == {h \in [TrackIds -> Hashes] : h["A"] = 1}

VARIABLES
    now,          \* the cache timer (time.monotonic), in ticks
    hashOf,       \* this process's hash() on identifiers
    aliased,      \* asyncio.TimeoutError is builtins.TimeoutError (Python >= 3.11)
    audio_cache,  \* TTLCache: links in least-recently-used-first order
    req,          \* the /track request handled by each task
    abandoned,    \* identifiers whose to_thread worker outlived its wait_for
    lastStored,   \* history: the URL a request for T last stored, while within its TTL
    disturbed,    \* history: since then T's entry was evicted or overwritten by another id
    late          \* history: the identifier whose abandoned worker has just returned a URL

trackVars == <<now, hashOf, aliased, audio_cache, req, abandoned, lastStored, disturbed, late>>

VARIABLES
    sreq          \* the /search request being handled

searchVars == <<sreq>>

VARIABLES
    thumb_memo,   \* the lru_cache of thumbnail_url: links, least recently used first
    returned,     \* history: the values each (id, kind) has had returned to a direct call
    lastHit       \* history: the last direct call was answered from thumb_memo

thumbVars == <<thumb_memo, returned, lastHit>>

vars == <<trackVars, searchVars, thumbVars>>

\* ------------------------------------------------------------ the TTLCache
Keys(c) == {c[i].key : i \in 1..Len(c)}

Index(c, k) == CHOOSE i \in 1..Len(c) : c[i].key = k

Without(c, k) == SelectSeq(c, LAMBDA l : l.key # k)

\* TTLCache.expire(time): drop every link with not (time < expires).
Expire(c, time) == SelectSeq(c, LAMBDA l : time < l.expires)

\* A lookup that takes a link for expired one tick early.
Live_Early(c, k, time) == k \in Keys(c) /\ time + 1 < c[Index(c, k)].expires

\* A lookup that never looks at the expiry time.
Live_NoExpiry(c, k, time) == k \in Keys(c)

\* TTLCache.__contains__ / __getitem__: a link counts only while
\* timer() < link.expires.
Live(c, k, time) == k \in Keys(c) /\ time < c[Index(c, k)].expires

\* audio_cache.get(cache_key): the value, or None when absent or expired.
CacheGet(c, k, time) == IF Live(c, k, time) THEN c[Index(c, k)].value ELSE NoUrl

\* A lookup that purges the expired link it finds.
CacheTouch_Purge(c, k, time) ==
    IF Live(c, k, time) THEN Append(Without(c, k), c[Index(c, k)]) ELSE Without(c, k)

\* __getitem__ on a live link moves it to the most-recently-used end; a
\* miss, on an absent or an expired link, changes nothing.
CacheTouch(c, k, time) ==
    IF Live(c, k, time) THEN Append(Without(c, k), c[Index(c, k)]) ELSE c

\* Cache.__setitem__ on a new key: popitem() the least recently used link
\* while the cache is full.
RECURSIVE MakeRoom(_)
MakeRoom(c) == IF Len(c) >= maxsize THEN MakeRoom(Tail(c)) ELSE c

\* A cache whose write keeps the value a live link already holds.
CacheSet_KeepFirst(c, k, v, time) ==
    LET swept == Expire(c, time)
        link == [key |-> k, value |-> v, expires |-> time + ttl]
    IN  IF k \in Keys(swept)
        THEN swept
        ELSE Append(MakeRoom(swept), link)

\* audio_cache[cache_key] = audio_url: sweep expired links, overwrite or
\* insert (evicting when full), expiry = time + ttl.
CacheSet(c, k, v, time) ==
    LET swept == Expire(c, time)
        link == [key |-> k, value |-> v, expires |-> time + ttl]
    IN  IF k \in Keys(swept)
        THEN Append(Without(swept, k), link)
        ELSE Append(MakeRoom(swept), link)

\* ------------------------------------------------- outcomes of the upstreams
\* _extract_audio_url: a stream URL, or the exception it logged and re-raised:
\* ValueError("No audio stream"), a timeout of the network layer
\* (socket.timeout is builtins.TimeoutError), or any other provider error.
ExtractOutcomes ==
    [kind : {"url"}, url : URLs, cls : {None}]
    \cup [kind : {"exc"}, url : {NoUrl}, cls : {"ValueError", "TimeoutError", "Exception"}]

ExtractFor(id) == {o \in ExtractOutcomes : o.kind = "url" => o.url.id = id}

\* meta["videoDetails"] as ytm.get_song returns it: a dict that may lack
\* keys; "thumbnails" stands for ["thumbnail"]["thumbnails"][i]["url"].
FullDetails == [title |-> "T", author |-> "Au", thumbnails |-> <<"t1", "t2">>]
NoAuthor == [title |-> "T", thumbnails |-> <<"t1", "t2">>]
NoTitle == [author |-> "Au", thumbnails |-> <<"t1", "t2">>]
NoThumbnail == [title |-> "T", author |-> "Au"]
EmptyThumbnails == [title |-> "T", author |-> "Au", thumbnails |-> <<>>]
OtherDetails == [title |-> "T2", author |-> "Au2", thumbnails |-> <<"t3">>]

MetaRecords ==
    { [videoDetails |-> FullDetails], [videoDetails |-> OtherDetails],
      [videoDetails |-> NoAuthor],
      [videoDetails |-> NoTitle], [videoDetails |-> NoThumbnail],
      [videoDetails |-> EmptyThumbnails], [playabilityStatus |-> "ERROR"] }

\* ytm.get_song returns a record or raises.
Raises == [raises |-> "Exception"]

\* The local name meta of line 175 while no answer has been built from a
\* record bound to it.
NoMeta == [unbound |-> "meta"]
MetaOutcomes == MetaRecords \cup {Raises}

Has(d, k) == k \in DOMAIN d

\* Lines 179-184 raise KeyError / IndexError unless every subscript exists.
Complete(meta) ==
    /\ Has(meta, "videoDetails")
    /\ Has(meta.videoDetails, "title")
    /\ Has(meta.videoDetails, "author")
    /\ Has(meta.videoDetails, "thumbnails")
    /\ Len(meta.videoDetails.thumbnails) > 0

\* A handler that answers with the first thumbnail of the list.
TrackBody_FirstThumb(meta, url) ==
    [ title |-> meta.videoDetails.title,
      artist |-> meta.videoDetails.author,
      thumbnail |-> meta.videoDetails.thumbnails[1],
      audioUrl |-> url ]

\* Lines 179-184: the answer, every field but audioUrl read from meta.
TrackBody(meta, url) ==
    [ title |-> meta.videoDetails.title,
      artist |-> meta.videoDetails.author,
      thumbnail |-> meta.videoDetails.thumbnails[Len(meta.videoDetails.thumbnails)],
      audioUrl |-> url ]

\* ------------------------------------------------------------ track_details
\* except asyncio.TimeoutError matches by class: the TimeoutError wait_for
\* raises, and, where the two names are one class, a TimeoutError the
\* worker raised.
IsAsyncioTimeout(cls) == cls = "asyncio.TimeoutError" \/ (aliased /\ cls = "TimeoutError")

\* A handler that answers every failure of the audio step with 504.
AudioStatus_All504(cls) == 504

AudioStatus(cls) == IF IsAsyncioTimeout(cls) THEN 504 ELSE 503

AudioDetail(cls) ==
    IF IsAsyncioTimeout(cls) THEN "Audio timeout" ELSE "Audio extraction failed"

IdleReq ==
    [ pc |-> "idle", video_id |-> None, audio_url |-> NoUrl, status |-> 0,
      detail |-> None, body |-> NoBody, at |-> 0, hit |-> FALSE,
      streamCalls |-> 0, metaCalls |-> 0, meta |-> NoMeta, exc |-> None ]

TrackInit ==
    /\ now = 0
    /\ hashOf \in HashChoices
    /\ aliased \in BOOLEAN
    /\ audio_cache = <<>>
    /\ req = [t \in Tasks |-> IdleReq]
    /\ abandoned = {}
    /\ lastStored = [T \in TrackIds |-> NoStore]
    /\ disturbed = {}
    /\ late = {}

\* What a call for T may count on: the URL last stored for T, while its TTL
\* window is open.
Expected(T) ==
    IF lastStored[T] # NoStore /\ now < lastStored[T].at + ttl
    THEN lastStored[T].url ELSE NoUrl

\* A handler that starts the metadata fetch together with the stream listing.
MetaAtStart_Eager(audio_url) == 1

\* Lines 161 and 175: the metadata fetch is dispatched by the lookup only on
\* a hit; on a miss it waits for line 170.
MetaAtStart(audio_url) == IF audio_url = NoUrl THEN 0 ELSE 1

InFlight(t) == req[t].pc \in {"await_audio", "await_meta"}

\* An answered request is shown for one state and then leaves (TrackRespond);
\* handing the answer to the framework touches nothing else, so every other
\* step is taken with no answer pending.
Quiet == \A t \in Tasks : req[t].pc # "done"

\* A new request runs as a new task; tasks are interchangeable, so it takes
\* the first slot whose request has been answered.
FreeSlot == IF \A t \in Tasks : InFlight(t) THEN 0
            ELSE CHOOSE t \in Tasks : ~InFlight(t) /\ \A u \in 1..(t - 1) : InFlight(u)

\* Lines 160-161 (and 172-175 on a hit): the cache lookup, then the dispatch
\* of the stream listing (miss) or of the metadata fetch (hit).
TrackStart(t, id) ==
    /\ Quiet
    /\ t = FreeSlot
    /\ LET cache_key == hashOf[id]
           audio_url == CacheGet(audio_cache, cache_key, now)
       IN  /\ audio_cache' = CacheTouch(audio_cache, cache_key, now)
           /\ req' = [req EXCEPT ![t] =
                  [ IdleReq EXCEPT
                      !.pc = IF audio_url = NoUrl THEN "await_audio" ELSE "await_meta",
                      !.video_id = id,
                      !.audio_url = audio_url,
                      !.at = IF audio_url = NoUrl THEN now ELSE 0,
                      !.hit = (audio_url # NoUrl),
                      !.streamCalls = IF audio_url = NoUrl THEN 1 ELSE 0,
                      !.metaCalls = MetaAtStart(audio_url) ]]
    /\ UNCHANGED <<now, hashOf, aliased, abandoned, lastStored, disturbed, late>>

\* The keys other than k that CacheSet(c, k, ..) removes although still live.
Evicted(c, k, time) ==
    {j \in Keys(Expire(c, time)) : j # k /\ j \notin Keys(CacheSet(c, k, NoUrl, time))}

\* Lines 163-177: the worker returned before the deadline.  A URL is stored
\* (line 170) and the metadata fetch dispatched (line 175); an exception is
\* classified by the except clauses of lines 166-169.
AudioDone(t, o) ==
    /\ Quiet
    /\ req[t].pc = "await_audio"
    /\ now < req[t].at + timeout
    /\ o \in ExtractFor(req[t].video_id)
    /\ LET id == req[t].video_id
           k == hashOf[id]
       IN  IF o.kind = "url"
           THEN /\ audio_cache' = CacheSet(audio_cache, k, o.url, now)
                /\ req' = [req EXCEPT ![t].pc = "await_meta",
                                      ![t].at = 0,
                                      ![t].audio_url = o.url,
                                      ![t].metaCalls = 1]
                /\ lastStored' = [lastStored EXCEPT ![id] = [url |-> o.url, at |-> now]]
                /\ disturbed' =
                       (disturbed \ {id})
                       \cup {T \in TrackIds \ {id} : hashOf[T] = k /\ lastStored[T] # NoStore}
                       \cup {T \in TrackIds : hashOf[T] \in Evicted(audio_cache, k, now)}
           ELSE /\ req' = [req EXCEPT ![t].pc = "done",
                                      ![t].at = 0,
                                      ![t].status = AudioStatus(o.cls),
                                      ![t].detail = AudioDetail(o.cls),
                                      ![t].exc = o.cls]
                /\ UNCHANGED <<audio_cache, lastStored, disturbed>>
    /\ late' = {}
    /\ UNCHANGED <<now, hashOf, aliased, abandoned>>

\* Lines 163-167: the deadline of wait_for passed first.  wait_for raises
\* asyncio.TimeoutError; the thread of to_thread cannot be cancelled and
\* runs on, its result dropped.
AudioTimeout(t) ==
    /\ Quiet
    /\ req[t].pc = "await_audio"
    /\ now >= req[t].at + timeout
    /\ req' = [req EXCEPT ![t].pc = "done",
                          ![t].at = 0,
                          ![t].status = AudioStatus("asyncio.TimeoutError"),
                          ![t].detail = AudioDetail("asyncio.TimeoutError"),
                          ![t].exc = "asyncio.TimeoutError"]
    /\ abandoned' = abandoned \cup {req[t].video_id}
    /\ late' = {}
    /\ UNCHANGED <<now, hashOf, aliased, audio_cache, lastStored, disturbed>>

\* A worker that stores the URL it resolved although nobody awaits it.
AbandonedDone_Writes(id) ==
    /\ Quiet
    /\ id \in abandoned
    /\ \E o \in ExtractFor(id) :
          /\ abandoned' = abandoned \ {id}
          /\ late' = IF o.kind = "url" THEN {id} ELSE {}
          /\ audio_cache' = IF o.kind = "url"
                            THEN CacheSet(audio_cache, hashOf[id], o.url, now)
                            ELSE audio_cache
    /\ UNCHANGED <<now, hashOf, aliased, req, lastStored, disturbed>>

\* Lines 141-154 in a worker nobody awaits any more: whatever it returns or
\* raises is dropped with its future.  late marks a URL dropped this way
\* until the next step that is not the start of a request.
AbandonedDone(id) ==
    /\ Quiet
    /\ id \in abandoned
    /\ \E o \in ExtractFor(id) :
          /\ abandoned' = abandoned \ {id}
          /\ late' = IF o.kind = "url" THEN {id} ELSE {}
    /\ UNCHANGED <<now, hashOf, aliased, audio_cache, req, lastStored, disturbed>>

\* A handler that takes the URL out of the cache again when get_song raises.
MetaDone_Rollback(t, m) ==
    /\ Quiet
    /\ req[t].pc = "await_meta"
    /\ m \in MetaOutcomes
    /\ req' = [req EXCEPT ![t] =
           IF m = Raises
           THEN [@ EXCEPT !.pc = "done", !.status = 503, !.detail = "Metadata unavailable"]
           ELSE IF Complete(m)
           THEN [@ EXCEPT !.pc = "done", !.status = 200, !.meta = m,
                          !.body = TrackBody(m, req[t].audio_url)]
           ELSE [@ EXCEPT !.pc = "done", !.status = 500,
                          !.detail = "Internal Server Error"]]
    /\ audio_cache' = IF m = Raises
                      THEN Without(audio_cache, hashOf[req[t].video_id])
                      ELSE audio_cache
    /\ late' = {}
    /\ UNCHANGED <<now, hashOf, aliased, abandoned, lastStored, disturbed>>

\* Lines 174-184: the metadata fetch came back.  An exception of get_song
\* is the 503 of line 177; the subscripts of lines 180-182 are outside the
\* try, so a record that lacks one ends the request with an unhandled
\* KeyError / IndexError, which the framework answers with 500.
MetaDone(t, m) ==
    /\ Quiet
    /\ req[t].pc = "await_meta"
    /\ m \in MetaOutcomes
    /\ req' = [req EXCEPT ![t] =
           IF m = Raises
           THEN [@ EXCEPT !.pc = "done", !.status = 503, !.detail = "Metadata unavailable"]
           ELSE IF Complete(m)
           THEN [@ EXCEPT !.pc = "done", !.status = 200, !.meta = m,
                          !.body = TrackBody(m, req[t].audio_url)]
           ELSE [@ EXCEPT !.pc = "done", !.status = 500,
                          !.detail = "Internal Server Error"]]
    /\ late' = {}
    /\ UNCHANGED <<now, hashOf, aliased, audio_cache, abandoned, lastStored, disturbed>>

\* Lines 167, 169, 177 and 179: the raise or return ends the task; the
\* framework sends the answer.
TrackRespond(t) ==
    /\ req[t].pc = "done"
    /\ req' = [req EXCEPT ![t] = IdleReq]
    /\ late' = {}
    /\ UNCHANGED <<now, hashOf, aliased, audio_cache, abandoned, lastStored, disturbed>>

\* Time passes.  A wait_for whose deadline is reached fires before the clock
\* moves on.
Tick ==
    /\ Quiet
    /\ now < MaxTime
    /\ \A t \in Tasks : req[t].pc = "await_audio" => now < req[t].at + timeout
    /\ now' = now + 1
    /\ lastStored' = [T \in TrackIds |->
           IF now + 1 < lastStored[T].at + ttl THEN lastStored[T] ELSE NoStore]
    /\ disturbed' = {T \in disturbed : now + 1 < lastStored[T].at + ttl}
    /\ late' = {}
    /\ UNCHANGED <<hashOf, aliased, audio_cache, req, abandoned>>

TrackNext ==
    \/ \E t \in Tasks, id \in TrackIds : TrackStart(t, id)
    \/ \E t \in Tasks, o \in ExtractOutcomes : AudioDone(t, o)
    \/ \E t \in Tasks : AudioTimeout(t)
    \/ \E id \in TrackIds : AbandonedDone(id)
    \/ \E t \in Tasks, m \in MetaOutcomes : MetaDone(t, m)
    \/ \E t \in Tasks : TrackRespond(t)
    \/ Tick

\* ---------------------------------------------------------- thumbnail_url
Url(video_id, quality) == <<"https://img.youtube.com/vi/", video_id, "/", quality, ".jpg">>

Tier(kind) ==
    IF kind = "song"
    THEN <<"maxresdefault", "hqdefault", "mqdefault", "default">>
    ELSE <<"hqdefault", "mqdefault", "default">>

\* The loop of lines 76-79 returns in its first iteration; line 80 is
\* reached only with an empty tier.
thumbnail_url(video_id, kind) ==
    IF Len(Tier(kind)) > 0 THEN Url(video_id, Tier(kind)[1]) ELSE Url(video_id, "default")

\* Line 69: lru_cache(maxsize=2_000) keeps the value of a call under its
\* arguments; a hit moves the link to the recent end, a miss on a full
\* cache drops the least recently used link.
ThumbKey(video_id, kind) == <<video_id, kind>>

\* A memo that looks the value up by identifier alone.
MemoIndex_IdOnly(memo, key) == {i \in 1..Len(memo) : memo[i].key[1] = key[1]}

MemoIndex(memo, key) == {i \in 1..Len(memo) : memo[i].key = key}

MemoHit(memo, key) == MemoIndex(memo, key) # {}

\* What the decorated thumbnail_url returns.
Cached(memo, video_id, kind) ==
    IF MemoHit(memo, ThumbKey(video_id, kind))
    THEN memo[CHOOSE i \in MemoIndex(memo, ThumbKey(video_id, kind)) : TRUE].value
    ELSE thumbnail_url(video_id, kind)

\* The memo after that call.
MemoAfter(memo, video_id, kind) ==
    LET key == ThumbKey(video_id, kind)
    IN  IF MemoHit(memo, key)
        THEN LET i == CHOOSE j \in MemoIndex(memo, key) : TRUE
             IN  Append(SelectSeq(memo, LAMBDA l : l # memo[i]), memo[i])
        ELSE LET link == [key |-> key, value |-> thumbnail_url(video_id, kind)]
             IN  IF Len(memo) >= thumb_maxsize
                 THEN Append(Tail(memo), link)
                 ELSE Append(memo, link)

\* The kinds the function is called with: resultType is any string.
Kinds == {"song", "video", "album"}

ThumbKeys == {ThumbKey(id, kind) : id \in TrackIds, kind \in Kinds}

ThumbInit ==
    /\ thumb_memo = <<>>
    /\ returned = [key \in ThumbKeys |-> {}]
    /\ lastHit = FALSE

\* A call of thumbnail_url(video_id, kind).
ThumbCall(video_id, kind) ==
    /\ returned' = [returned EXCEPT ![ThumbKey(video_id, kind)] =
                        @ \cup {Cached(thumb_memo, video_id, kind)}]
    /\ lastHit' = MemoHit(thumb_memo, ThumbKey(video_id, kind))
    /\ thumb_memo' = MemoAfter(thumb_memo, video_id, kind)

ThumbNext == \E video_id \in TrackIds, kind \in Kinds : ThumbCall(video_id, kind)

\* ----------------------------------------------------------- search_tracks
\* Records as ytm.search returns them: dicts that may lack any key.
Records ==
    { [videoId |-> "A", resultType |-> "song", title |-> "T1",
       artists |-> <<[name |-> "X"], [id |-> "UC1"]>>],
      [videoId |-> "A", resultType |-> "video", title |-> "T1v"],
      [title |-> "T3", channel |-> <<[name |-> "Chan1"]>>],
      [videoId |-> "B", resultType |-> None, artists |-> <<>>,
       channel |-> <<[name |-> "Chan1"]>>],
      [videoId |-> "B", title |-> "T5",
       channel |-> <<[name |-> "Chan1"], [name |-> "Chan2"]>>] }

RECURSIVE SeqsUpTo(_, _)
SeqsUpTo(S, n) ==
    IF n = 0 THEN {<<>>}
    ELSE LET shorter == SeqsUpTo(S, n - 1)
         IN  shorter \cup {Append(q, x) : q \in shorter, x \in S}

\* What one ytm.search call may come back with: a list, or an exception.
Pending == [state |-> "pending", items |-> <<>>]
Failed == [state |-> "exc", items |-> <<>>]
Returned(items) == [state |-> "ok", items |-> items]
SearchOutcomes == {Failed} \cup {Returned(q) : q \in SeqsUpTo(Records, MaxLen)}

\* Python truthiness of item.get(k): an absent key, None and "" are falsy
\* where a string is expected, an absent key and [] where a list is.
Get(item, k) == IF Has(item, k) THEN item[k] ELSE None
Falsy(v) == v \in {None, ""}
Truthy(item, k) == Has(item, k) /\ ~Falsy(item[k])
TruthyList(item, k) == Has(item, k) /\ item[k] # <<>>

\* Line 120.
KindOf(item) == IF Truthy(item, "resultType") THEN item.resultType ELSE "video"

\* A loop that never reads "channel".
ArtistEntries_NoChannel(item) ==
    IF TruthyList(item, "artists") THEN item.artists ELSE <<>>

\* Lines 121-125: item.get("artists") or item.get("channel") or [].  The
\* entries of Records are all dicts, so the isinstance filter keeps them.
ArtistEntries(item) ==
    IF TruthyList(item, "artists") THEN item.artists
    ELSE IF TruthyList(item, "channel") THEN item.channel
    ELSE <<>>

ArtistNames(item) ==
    [i \in 1..Len(ArtistEntries(item)) |->
        IF Has(ArtistEntries(item)[i], "name") THEN ArtistEntries(item)[i].name ELSE "Unknown"]

\* ", ".join(names): the pieces of the joined string, in order.
RECURSIVE Join(_)
Join(names) ==
    IF Len(names) = 0 THEN <<>>
    ELSE IF Len(names) = 1 THEN names
    ELSE <<names[1], ", ">> \o Join(Tail(names))

\* Line 129.
ArtistOf(item) ==
    IF Len(ArtistNames(item)) > 0 THEN Join(ArtistNames(item)) ELSE <<"Unknown">>

\* Line 128.
TitleOf(item) == IF Has(item, "title") THEN item.title ELSE "No title"

\* Lines 126-134.
ResultWith(item, thumbnail) ==
    [ title |-> TitleOf(item),
      artist |-> ArtistOf(item),
      thumbnail |-> thumbnail,
      videoId |-> item.videoId,
      type |-> KindOf(item) ]

ResultOf(item) == ResultWith(item, thumbnail_url(item.videoId, KindOf(item)))

\* A loop that drops only the records without an identifier.
Skipped_NoDedup(item, seen) == Falsy(Get(item, "videoId"))

\* Line 116: if not vid or vid in seen: continue.
Skipped(item, seen) == Falsy(Get(item, "videoId")) \/ Get(item, "videoId") \in seen

\* Lines 113-134: the loop over raw, with its results and seen so far and
\* the memo of thumbnail_url its calls go through.
RECURSIVE Loop(_, _, _, _)
Loop(raw, results, seen, memo) ==
    IF raw = <<>> THEN [results |-> results, memo |-> memo]
    ELSE IF Skipped(Head(raw), seen) THEN Loop(Tail(raw), results, seen, memo)
    ELSE LET item == Head(raw)
             vid == item.videoId
             kind == KindOf(item)
         IN  Loop(Tail(raw),
                  Append(results, ResultWith(item, Cached(memo, vid, kind))),
                  seen \cup {vid},
                  MemoAfter(memo, vid, kind))

Normalize(raw, memo) == Loop(raw, <<>>, {}, memo)

\* The filters of the upstream queries a search of this type issues
\* (lines 97, 98 and 105).
FiltersFor(type) == IF type = "all" THEN <<"songs", None>> ELSE <<type>>

\* A handler that takes a failed query for an empty result.
Gathered_Partial(outs) ==
    IF \A i \in 1..Len(outs) : outs[i].state = "exc"
    THEN Failed
    ELSE Returned(IF Len(outs) = 2 THEN outs[1].items \o outs[2].items ELSE outs[1].items)

\* A handler that merges the videos before the songs.
Gathered_Reversed(outs) ==
    IF \E i \in 1..Len(outs) : outs[i].state = "exc"
    THEN Failed
    ELSE Returned(IF Len(outs) = 2 THEN outs[2].items \o outs[1].items ELSE outs[1].items)

\* Lines 94-108: what the try block leaves in raw, or the exception that
\* becomes the 502: with return_exceptions=True gather hands back the
\* exception of a failed query in place of its list, and line 101 raises it.
Gathered(outs) ==
    IF \E i \in 1..Len(outs) : outs[i].state = "exc"
    THEN Failed
    ELSE Returned(IF Len(outs) = 2 THEN outs[1].items \o outs[2].items ELSE outs[1].items)

IdleSearch ==
    [ pc |-> "idle", type |-> None, queries |-> <<>>, outs |-> <<>>,
      first |-> 0, status |-> 0, detail |-> None, results |-> <<>> ]

SearchInit == sreq = IdleSearch

\* Lines 94-105: the queries are handed to worker threads.
SearchStart(type) ==
    /\ sreq.pc = "idle"
    /\ sreq' = [IdleSearch EXCEPT !.pc = "await", !.type = type,
                                  !.queries = FiltersFor(type),
                                  !.outs = [i \in 1..Len(FiltersFor(type)) |-> Pending]]
    /\ UNCHANGED thumb_memo

\* One ytm.search call returns or raises, in its own thread; first keeps
\* which of the queries did so first.
QueryDone(i, o) ==
    /\ sreq.pc = "await"
    /\ i \in 1..Len(sreq.outs)
    /\ sreq.outs[i] = Pending
    /\ o \in SearchOutcomes
    /\ sreq' = [sreq EXCEPT !.outs[i] = o,
                            !.first = IF sreq.first = 0 THEN i ELSE sreq.first]
    /\ UNCHANGED thumb_memo

\* Lines 100-136: gather (or the single await) is complete, the handler
\* runs to its end.
SearchFinish ==
    /\ sreq.pc = "await"
    /\ \A i \in 1..Len(sreq.outs) : sreq.outs[i] # Pending
    /\ LET raw == Gathered(sreq.outs)
       IN  IF raw = Failed
           THEN /\ sreq' = [sreq EXCEPT !.pc = "done", !.status = 502,
                                        !.detail = "Upstream unavailable"]
                /\ UNCHANGED thumb_memo
           ELSE IF raw.items = <<>>
           THEN /\ sreq' = [sreq EXCEPT !.pc = "done", !.status = 404,
                                        !.detail = "No results"]
                /\ UNCHANGED thumb_memo
           ELSE /\ sreq' = [sreq EXCEPT !.pc = "done", !.status = 200,
                                        !.results = Normalize(raw.items, thumb_memo).results]
                /\ thumb_memo' = Normalize(raw.items, thumb_memo).memo

\* The answer is sent, the task ends.
SearchRespond ==
    /\ sreq.pc = "done"
    /\ sreq' = IdleSearch
    /\ UNCHANGED thumb_memo

SearchNext ==
    \/ \E type \in {"song", "video", "all"} : SearchStart(type)
    \/ \E i \in 1..2, o \in SearchOutcomes : QueryDone(i, o)
    \/ SearchFinish
    \/ SearchRespond

\* ---------------------------------------------------------- specifications
Init == TrackInit /\ SearchInit /\ ThumbInit

Next ==
    \/ TrackNext /\ UNCHANGED <<searchVars, thumbVars>>
    \/ SearchNext /\ UNCHANGED <<trackVars, returned, lastHit>>
    \/ ThumbNext /\ UNCHANGED <<trackVars, searchVars>>

Spec == Init /\ [][Next]_vars

\* The /track requests alone, and the /search requests alone.
TrackSpec == Init /\ [][TrackNext /\ UNCHANGED <<searchVars, thumbVars>>]_vars

\* search_tracks reads neither hash() nor the exception classes, so one
\* choice of them is enough to start from.
SearchSpec ==
    /\ Init /\ hashOf = [T \in TrackIds |-> 1] /\ ~aliased
    /\ [][SearchNext /\ UNCHANGED <<trackVars, returned, lastHit>>]_vars

\* The calls of thumbnail_url alone.
ThumbSpec ==
    /\ Init /\ hashOf = [T \in TrackIds |-> 1] /\ ~aliased
    /\ [][ThumbNext /\ UNCHANGED <<trackVars, searchVars>>]_vars

\* ----------------------------------------------------- claims on /search
\* The merged list of an answered search: the records of the songs query,
\* then those of the other query.
RECURSIVE Concat(_)
Concat(outs) == IF outs = <<>> THEN <<>> ELSE Head(outs).items \o Concat(Tail(outs))

HasId(item) == Has(item, "videoId") /\ item.videoId \notin {None, ""}

IdsOf(raw) == {raw[i].videoId : i \in {j \in 1..Len(raw) : HasId(raw[j])}}

FirstIndex(raw, v) ==
    CHOOSE i \in 1..Len(raw) :
        /\ HasId(raw[i]) /\ raw[i].videoId = v
        /\ \A j \in 1..(i - 1) : ~(HasId(raw[j]) /\ raw[j].videoId = v)

Decided == sreq.pc = "done" /\ sreq.status # 502

\* C1: a search with no upstream failure whose merged list has no record
\* with a track identifier is answered 404, never 200 with an empty list.
C1_EmptyIsNotFound ==
    Decided =>
        /\ IdsOf(Concat(sreq.outs)) = {} => sreq.status = 404
        /\ ~(sreq.status = 200 /\ sreq.results = <<>>)

\* C2: a search with no upstream failure returns one result per distinct
\* non-empty identifier of the merged list: records without identifier are
\* dropped, identifiers are pairwise distinct, and each result is derived
\* from the first record in merge order that has its identifier.
C2_DedupFirstOccurrence ==
    Decided =>
        LET raw == Concat(sreq.outs)
            results == sreq.results
        IN  /\ Len(results) = Cardinality(IdsOf(raw))
            /\ \A i, j \in 1..Len(results) :
                  i # j => results[i].videoId # results[j].videoId
            /\ \A i \in 1..Len(results) :
                  /\ results[i].videoId \in IdsOf(raw)
                  /\ results[i] = ResultOf(raw[FirstIndex(raw, results[i].videoId)])

\* A song record followed by a video record with the same identifier gave
\* one result, of type "song".
C2_Witness ==
    /\ Decided /\ sreq.status = 200
    /\ Len(sreq.results) = 1
    /\ sreq.results[1].type = "song"
    /\ LET raw == Concat(sreq.outs)
       IN  /\ Len(raw) = 2
           /\ HasId(raw[2]) /\ raw[2].videoId = sreq.results[1].videoId
           /\ raw[2].resultType = "video"

\* C7: in mode "all" a failure of either query ends the search with 502 and
\* no result; 200 is answered only when both queries returned.
C7_NoPartialResults ==
    (sreq.pc = "done" /\ sreq.type = "all") =>
        /\ (\E i \in 1..2 : sreq.outs[i] = Failed) =>
              (sreq.status = 502 /\ sreq.detail = "Upstream unavailable"
               /\ sreq.results = <<>>)
        /\ sreq.status \in {200, 404} => \A i \in 1..2 : sreq.outs[i].state = "ok"

\* One query failed, the other returned a record with an identifier, and
\* the answer is 502.
C7_Witness ==
    /\ sreq.pc = "done" /\ sreq.type = "all" /\ sreq.status = 502
    /\ \E i, j \in 1..2 :
          /\ sreq.outs[i] = Failed
          /\ sreq.outs[j].state = "ok"
          /\ IdsOf(sreq.outs[j].items) # {}

\* C10: a search of type "song" (resp. "video") issues exactly one query,
\* with the songs (resp. videos) filter of the provider, for "song" the
\* filter the songs query of type "all" carries; none is unfiltered.
C10_SingleModeFilter ==
    (sreq.pc # "idle" /\ sreq.type \in {"song", "video"}) =>
        /\ Len(sreq.queries) = 1
        /\ sreq.queries[1] # None
        /\ sreq.type = "song" => sreq.queries[1] = FiltersFor("all")[1]
        /\ sreq.type = "video" => sreq.queries[1] = "videos"

\* artist is the names of entries, in order, joined with ", "; an entry
\* without a name counts as "Unknown".
NamesJoined(entries, artist) ==
    /\ Len(entries) > 0
    /\ Len(artist) = 2 * Len(entries) - 1
    /\ \A i \in 1..Len(entries) :
          artist[2 * i - 1] = IF "name" \in DOMAIN entries[i] THEN entries[i].name ELSE "Unknown"
    /\ \A i \in 1..(Len(entries) - 1) : artist[2 * i] = ", "

NoEntries(item, k) == k \notin DOMAIN item \/ item[k] = <<>>

C11_MergeOrder ==
    Decided =>
        LET raw == IF sreq.type = "all"
                   THEN sreq.outs[1].items \o sreq.outs[2].items
                   ELSE sreq.outs[1].items
            results == sreq.results
        IN  /\ \A i \in 1..Len(results) : results[i].videoId \in IdsOf(raw)
            /\ \A i, j \in 1..Len(results) :
                  i < j => FirstIndex(raw, results[i].videoId)
                              < FirstIndex(raw, results[j].videoId)

\* The second query completed first, yet the result from the songs query
\* comes before the result from the second query.
C11_Witness ==
    /\ Decided /\ sreq.type = "all" /\ sreq.status = 200
    /\ sreq.first = 2
    /\ Len(sreq.results) = 2
    /\ sreq.results[1].videoId \in IdsOf(sreq.outs[1].items)
    /\ sreq.results[2].videoId \in IdsOf(sreq.outs[2].items)
    /\ sreq.results[2].videoId \notin IdsOf(sreq.outs[1].items)

\* C15: in mode "all" the handler goes on as soon as either query has failed:
\* with one query failed it can answer although the other is still running.
C15_FailureAbortsJoin ==
    (sreq.pc = "await" /\ sreq.type = "all"
        /\ \E i \in 1..2 : sreq.outs[i] = Failed) => ENABLED SearchFinish

\* C14: every call of thumbnail_url(id, kind) returns the same, non-empty
\* URL for the same arguments, whose quality tag is the first entry of the
\* tier of kind, "maxresdefault" for "song" and "hqdefault" for any other
\* kind; the memo holds no other value.
C14_FirstTierEntry ==
    LET Tag(kind) == IF kind = "song" THEN "maxresdefault" ELSE "hqdefault"
        Value(key) == <<"https://img.youtube.com/vi/", key[1], "/", Tag(key[2]), ".jpg">>
    IN  /\ \A key \in ThumbKeys :
              /\ Cardinality(returned[key]) <= 1
              /\ returned[key] \subseteq {Value(key)}
              /\ <<>> \notin returned[key]
              /\ Tag(key[2]) = Tier(key[2])[1]
        /\ \A i \in 1..Len(thumb_memo) : thumb_memo[i].value = Value(thumb_memo[i].key)

\* A call answered from the memo, after calls for the same identifier with
\* the kinds "song" and "album".
C14_Witness ==
    /\ lastHit
    /\ returned[<<"A", "song">>] = {<<"https://img.youtube.com/vi/", "A", "/", "maxresdefault", ".jpg">>}
    /\ returned[<<"A", "album">>] = {<<"https://img.youtube.com/vi/", "A", "/", "hqdefault", ".jpg">>}

\* ------------------------------------------------------ claims on /track
\* The step in which task t begins a request for id (lines 160-161).
StartsFor(t, id) ==
    /\ ~InFlight(t)
    /\ req'[t].pc \in {"await_audio", "await_meta"}
    /\ req'[t].video_id = id

ServedFromCache(t, url) ==
    /\ req'[t].hit
    /\ req'[t].streamCalls = 0
    /\ req'[t].audio_url = url

C4_NoExpiredHit ==
    [][\A t \in Tasks, id \in TrackIds :
         StartsFor(t, id) =>
            LET fresh == \E i \in 1..Len(audio_cache) :
                            /\ audio_cache[i].key = hashOf[id]
                            /\ now < audio_cache[i].expires
            IN  /\ req'[t].hit => fresh
                /\ ~fresh => /\ ~req'[t].hit
                             /\ req'[t].pc = "await_audio"
                             /\ req'[t].streamCalls = 1]_vars

\* A request that found its entry expired and went upstream again.
C4_Witness ==
    \E t \in Tasks :
        /\ req[t].pc = "await_audio" /\ req[t].streamCalls = 1
        /\ \E i \in 1..Len(audio_cache) :
              /\ audio_cache[i].key = hashOf[req[t].video_id]
              /\ audio_cache[i].value.id = req[t].video_id
              /\ audio_cache[i].expires <= req[t].at

WorkerExceptions == {"ValueError", "TimeoutError", "Exception"}

\* C5: a stream listing cut off by the 8-second deadline is answered 504
\* "Audio timeout", and a stream listing that failed by itself before the
\* deadline is answered 503 "Audio extraction failed", never 504.
C5_TimeoutVsFailure ==
    \A t \in Tasks :
        req[t].pc = "done" =>
            /\ req[t].exc = "asyncio.TimeoutError" =>
                  (req[t].status = 504 /\ req[t].detail = "Audio timeout")
            /\ req[t].exc \in WorkerExceptions =>
                  (req[t].status = 503 /\ req[t].detail = "Audio extraction failed")

\* C6: every request ends in 200, 503 or 504; a metadata record that lacks a
\* field is a 503, never an unclassified error.
C6_OnlyClassifiedAnswers ==
    \A t \in Tasks : req[t].pc = "done" => req[t].status \in {200, 503, 504}

\* C8: a stream listing that completes without an audio-only stream is
\* answered 503 "Audio extraction failed", and the step that answers it
\* leaves the audio-URL cache as it was.
C8_NoAudioStream ==
    /\ [](\A t \in Tasks :
            (req[t].pc = "done" /\ req[t].exc = "ValueError")
                => (req[t].status = 503 /\ req[t].detail = "Audio extraction failed"
                    /\ req[t].body = NoBody))
    /\ [][\A t \in Tasks :
            (req[t].pc = "await_audio" /\ req'[t].pc = "done" /\ req'[t].exc = "ValueError")
                => audio_cache' = audio_cache]_vars

\* A request answered 503 because there was no audio stream, with nothing
\* cached under its key.
C8_Witness ==
    \E t \in Tasks :
        /\ req[t].pc = "done" /\ req[t].exc = "ValueError" /\ req[t].status = 503
        /\ hashOf[req[t].video_id] \notin Keys(audio_cache)

\* C9: a request whose audio step failed has issued no metadata call and
\* ends with the audio step's own answer; a metadata call is issued only
\* once the audio URL is there.
C9_AudioBeforeMetadata ==
    \A t \in Tasks :
        /\ req[t].exc # None =>
              (req[t].pc = "done" /\ req[t].metaCalls = 0 /\ req[t].status \in {503, 504}
               /\ req[t].detail \in {"Audio timeout", "Audio extraction failed"})
        /\ req[t].metaCalls > 0 => req[t].audio_url # NoUrl
        /\ req[t].pc = "await_audio" => req[t].metaCalls = 0

\* A request ended by a failed audio step, no metadata call made.
C9_Witness ==
    \E t \in Tasks :
        req[t].pc = "done" /\ req[t].exc # None /\ req[t].metaCalls = 0

\* C12: a request answered 200 has made exactly one metadata fetch, whether
\* its URL came from the cache or from a stream listing, and the title, the
\* artist and the thumbnail of the answer are the title, the author and the
\* last thumbnail of the record that fetch returned.
C12_OneMetadataFetch ==
    \A t \in Tasks :
        (req[t].pc = "done" /\ req[t].status = 200) =>
            /\ req[t].metaCalls = 1
            /\ req[t].streamCalls = IF req[t].hit THEN 0 ELSE 1
            /\ req[t].meta \in MetaRecords
            /\ LET d == req[t].meta.videoDetails
               IN  /\ req[t].body.title = d.title
                   /\ req[t].body.artist = d.author
                   /\ \E i \in 1..Len(d.thumbnails) :
                         /\ i = Len(d.thumbnails)
                         /\ req[t].body.thumbnail = d.thumbnails[i]

\* A cache hit answered 200 from a record with more than one thumbnail.
C12_Witness ==
    \E t \in Tasks :
        /\ req[t].pc = "done" /\ req[t].status = 200 /\ req[t].hit
        /\ req[t].metaCalls = 1
        /\ Len(req[t].meta.videoDetails.thumbnails) = 2
        /\ req[t].body.thumbnail = "t2"

\* C16: a request makes at most one stream listing call and at most one
\* metadata call; the steps of a request whose stream resolution fails (the
\* lookup that misses, the exception or the timeout of the audio step)
\* leave audio_cache as it was; and no step of a track request changes any
\* shared state other than audio_cache.
C16_NoRetryCacheOnly ==
    [][ /\ \A t \in Tasks :
              /\ req'[t].streamCalls <= 1
              /\ req'[t].metaCalls <= 1
              /\ (req'[t] # req[t] /\ req'[t].pc = "await_audio") =>
                    audio_cache' = audio_cache
              /\ (req'[t] # req[t] /\ req'[t].pc = "done" /\ req'[t].exc # None) =>
                    /\ req'[t].status \in {503, 504}
                    /\ req'[t].streamCalls = 1 /\ req'[t].metaCalls = 0
                    /\ audio_cache' = audio_cache
        /\ hashOf' = hashOf /\ aliased' = aliased
        /\ sreq' = sreq /\ thumb_memo' = thumb_memo ]_vars

\* A request missed on an expired link, failed in the audio step, and the
\* expired link is still in the cache.
C16_Witness ==
    \E t \in Tasks :
        /\ req[t].pc = "done" /\ req[t].exc # None
        /\ req[t].streamCalls = 1 /\ req[t].metaCalls = 0
        /\ \E i \in 1..Len(audio_cache) :
              /\ audio_cache[i].key = hashOf[req[t].video_id]
              /\ audio_cache[i].expires <= now

\* C17: every request that misses makes its own stream listing call and
\* writes what it resolved: right after a write the cache holds exactly one
\* link under the key, with the URL just written (the last writer wins),
\* and a request that resolved a URL answers with that URL, whatever the
\* cache holds by then.
C17_LastWriterWins ==
    [][ \A t \in Tasks :
          /\ (req[t].pc = "idle" /\ req'[t].pc = "await_audio") =>
                req'[t].streamCalls = 1
          /\ (req[t].pc = "await_audio" /\ req'[t].pc = "await_meta") =>
                LET k == hashOf[req[t].video_id]
                    links == {i \in 1..Len(audio_cache') : audio_cache'[i].key = k}
                IN  /\ req'[t].audio_url.id = req[t].video_id
                    /\ Cardinality(links) = 1
                    /\ \A i \in links : audio_cache'[i].value = req'[t].audio_url
          /\ (req[t].pc = "await_meta" /\ req'[t].pc = "done" /\ req'[t].status = 200) =>
                req'[t].body.audioUrl = req[t].audio_url ]_vars

\* Two requests for one identifier both missed and both wrote; the one
\* that wrote first is answered 200 with its own URL while the cache holds
\* the URL of the other.
C17_Witness ==
    \E t, u \in Tasks :
        /\ t # u /\ req[t].video_id = req[u].video_id
        /\ ~req[t].hit /\ ~req[u].hit
        /\ req[t].streamCalls = 1 /\ req[u].streamCalls = 1
        /\ req[t].pc = "done" /\ req[t].status = 200
        /\ req[u].pc = "await_meta"
        /\ req[t].body.audioUrl # req[u].audio_url
        /\ Len(audio_cache) = 1
        /\ audio_cache[1].key = hashOf[req[t].video_id]
        /\ audio_cache[1].value = req[u].audio_url
        /\ audio_cache[1].value.id = req[u].video_id

\* C18: a request for T answered 200 carries a URL that a stream listing
\* of T produced, never the URL stored by a request for another identifier.
C18_OwnUrlOnly ==
    \A t \in Tasks :
        (req[t].pc = "done" /\ req[t].status = 200) =>
            req[t].body.audioUrl.id = req[t].video_id

\* C19: the request a timeout ended has stored nothing, and the worker it
\* left running never writes audio_cache: the step in which that worker
\* completes, with a URL or with an exception, changes neither the cache
\* nor any request, so a lookup that missed before it misses after it.
C19_AbandonedNeverWrites ==
    [][ /\ \A t \in Tasks :
              (req'[t] # req[t] /\ req'[t].exc = "asyncio.TimeoutError") =>
                  /\ req'[t].status = 504 /\ req'[t].audio_url = NoUrl
                  /\ req[t].video_id \in abandoned'
                  /\ audio_cache' = audio_cache
        /\ abandoned' \subseteq abandoned /\ abandoned' # abandoned =>
              /\ audio_cache' = audio_cache
              /\ req' = req
              /\ \A T \in TrackIds :
                    CacheGet(audio_cache', hashOf[T], now') = CacheGet(audio_cache, hashOf[T], now) ]_vars

\* The abandoned worker for an identifier has returned a URL, and the next
\* request for that identifier missed the cache, which holds nothing.
C19_Witness ==
    \E t \in Tasks :
        /\ req[t].video_id \in late
        /\ req[t].pc = "await_audio" /\ ~req[t].hit /\ req[t].streamCalls = 1
        /\ req[t].video_id \notin abandoned
        /\ audio_cache = <<>>

MetadataUnavailable(r) ==
    r.pc = "done" /\ r.status = 503 /\ r.detail = "Metadata unavailable"

====
